---- MODULE Spec2Model ----
(***************************************************************************)
(* Recruiter identity and session authentication, as implemented by the    *)
(* route handlers of backend/app/routes/recruiter.py: registration, login, *)
(* the bearer-token gate, profile update and the e-mail OTP challenge.     *)
(* The recruiters table, the schemas, the password hasher, the token codec *)
(* and the mail service are collaborators of the handlers.                 *)
(***************************************************************************)
EXTENDS Integers, Sequences, FiniteSets, TLC

VARIABLES
    recruiters,   \* the recruiters table: a sequence of rows, row i has id i
    now,          \* the wall clock, in seconds
    ticks,        \* how many times the clock has advanced
    steps,        \* how many requests and clock advances have happened
    tokens,       \* session tokens issued so far (in the clients' hands)
    mail,         \* the e-mail the last step handed to the delivery service
    response,     \* the response of the last step
    history,      \* what has happened to each account (kept for the properties)
    gen,          \* the OTP generator run on its own: a draw and its code
    conc          \* two send_otp requests in flight in two workers

vars == <<recruiters, now, ticks, steps, tokens, mail, response, history,
          gen, conc>>

----------------------------------------------------------------------------
\* Bounds of the model.

MaxSteps == 5
MaxTicks == 2
MaxTokens == 1
MaxRecruiters == 2

\* Program constants.

OtpTtl == 60          \* datetime.timedelta(seconds=60)
TokenTtl == 86400     \* datetime.timedelta(days=1)
OtpWidth == 6         \* "0" * (6 - len(otp))
OtpRange == 1000000   \* random.random() * 1000000

\* Input sets.

Emails == {"a@x.com", "b@x.com"}
Passwords == {"", "p1"}
Names == {"n1"}
Draws == {d \in {7, 42} : d < OtpRange}
TickSteps == {1, OtpTtl - 1, TokenTtl - 1}

\* SQL NULL / Python None for an optional value, and a present value.
Null == <<>>
Some(v) == <<v>>

----------------------------------------------------------------------------
\* The OTP generator (send_otp, lines 178-179).

RECURSIVE str(_)
str(n) == IF n < 10 THEN <<n>> ELSE str(n \div 10) \o <<n % 10>>

RECURSIVE Zeros(_)
Zeros(k) == IF k <= 0 THEN <<>> ELSE <<0>> \o Zeros(k - 1)

\* Variant: the padding of line 179 is left out.
generate_otp_unpadded(draw) == str(draw)

\* otp = str(int(random.random() * 1000000)); otp = otp + "0" * (6 - len(otp))
generate_otp(draw) == str(draw) \o Zeros(OtpWidth - Len(str(draw)))

PresentedCodes == {generate_otp(d) : d \in Draws}

----------------------------------------------------------------------------
\* Collaborators outside the route module.

\* security.hash_password / security.verify_password
hash_password(p) == <<"hash", p>>
verify_password(p, h) == h = hash_password(p)

\* The columns of models.Recruiter that the handlers read or write.
RecruiterColumns ==
    {"id", "name", "email", "password_hash", "email_verified",
     "email_otp", "email_otp_expiry"}

\* schemas.Recruiter, the response_model of register and fetch.
SchemaRecruiter == {"id", "name", "email", "email_verified"}

\* A new row of models.Recruiter with the column defaults.
NewRecruiter(id, name, email, hash) ==
    [id |-> id, name |-> name, email |-> email, password_hash |-> hash,
     email_verified |-> FALSE, email_otp |-> Null, email_otp_expiry |-> Null]

\* The unique constraint on recruiters.email.
EmailTaken(rows, email, exceptId) ==
    \E i \in DOMAIN rows : i # exceptId /\ rows[i].email = email

\* Authorization header values: absent, not "Bearer <jwt>", or a JWT.
\* iat is not part of the payload; it records when the token was encoded.
NoHeader == [kind |-> "none", id |-> 0, exp |-> 0, iat |-> 0, sig |-> FALSE]
Malformed == [kind |-> "malformed", id |-> 0, exp |-> 0, iat |-> 0, sig |-> FALSE]
Jwt(id, exp, iat, sig) == [kind |-> "jwt", id |-> id, exp |-> exp, iat |-> iat, sig |-> sig]

\* jwt.encode with the process-wide secret.
jwt_encode(id, exp, t) == Jwt(id, exp, t, TRUE)

\* jwt.decode: the signature verifies and exp > now.
jwt_decode_ok(tok, t) == tok.kind = "jwt" /\ tok.sig /\ tok.exp > t

\* dependencies.authorization.authorize_recruiter
authorize_recruiter(header, t) ==
    [ok |-> jwt_decode_ok(header, t), id |-> header.id,
     why |-> IF header.kind = "none" THEN "missing header"
             ELSE IF header.kind # "jwt" THEN "malformed header"
             ELSE IF ~header.sig THEN "bad signature"
             ELSE IF ~(header.exp > t) THEN "token expired"
             ELSE ""]

\* brevo.send_otp_email: fire-and-forget, a failed delivery is not raised.
send_otp_email(to, otp, delivered) == <<[to |-> to, otp |-> otp, delivered |-> delivered]>>
NoMail == <<>>

----------------------------------------------------------------------------
\* Responses: the route that answered, the status code, the "message" of the
\* body, the Authorization response header, the keys of the body, the id of
\* the recruiter the body describes, and the exception when none was caught.

NoBody == {}

Reply(op, status, message, token, body, id) ==
    [op |-> op, status |-> status, message |-> message, token |-> token,
     body |-> body, id |-> id, error |-> ""]

\* An exception no handler catches: the framework answers 500.
Unhandled(op, exc) ==
    [op |-> op, status |-> 500, message |-> "Internal Server Error",
     token |-> NoHeader, body |-> NoBody, id |-> 0, error |-> exc]

\* The gate's rejection, raised before the route body runs.
Unauthorized(op, why) ==
    [op |-> op, status |-> 401, message |-> why, token |-> NoHeader,
     body |-> NoBody, id |-> 0, error |-> ""]

\* Every request and every clock advance counts towards the length of a run.
\* The generator on its own: nothing drawn yet. The workers: no request in flight.
NoGen == [draw |-> 0, otp |-> Null]
NoConc == [pc |-> <<>>, email |-> <<>>, otp |-> <<>>, at |-> <<>>, k |-> <<>>,
           lock |-> <<>>, last |-> <<>>]

Step == steps < MaxSteps /\ steps' = steps + 1 /\ UNCHANGED <<gen, conc>>

\* The history of the accounts: the password hash each recruiter registered
\* with, the OTP challenges that a later Send OTP overwrote, and the Verify OTP
\* requests that were accepted.
NoHistory == [registered |-> <<>>, superseded |-> {}, accepted |-> {},
              again |-> {}]

Registered(h, rows, rows2) ==
    IF Len(rows2) > Len(rows)
    THEN [h EXCEPT !.registered = Append(@, rows2[Len(rows2)].password_hash)]
    ELSE h

Superseded(h, rows, rows2) ==
    [h EXCEPT !.superseded = @ \cup
        {[id |-> rows[i].id, otp |-> rows[i].email_otp] :
            i \in {j \in DOMAIN rows : rows[j].email_otp_expiry # Null
                                        /\ rows2[j] # rows[j]}}]

Accepted(h, resp, otp, t) ==
    IF resp.status = 200
    THEN LET a == [id |-> resp.id, otp |-> otp]
         IN [h EXCEPT !.accepted = @ \cup {a},
                      !.again = IF a \in h.accepted THEN @ \cup {a} ELSE @]
    ELSE h

RowsByEmail(rows, email) == {i \in DOMAIN rows : rows[i].email = email}
RowsById(rows, id) == {i \in DOMAIN rows : rows[i].id = id}
TheRow(s) == CHOOSE i \in s : TRUE

----------------------------------------------------------------------------
\* register_recruiter (POST ""), lines 19-44.

register_recruiter(rows, email, password, name) ==
    IF EmailTaken(rows, email, 0)
    THEN \* db.commit() raises IntegrityError; nothing catches it
         [rows |-> rows, resp |-> Unhandled("register", "IntegrityError")]
    ELSE LET id == Len(rows) + 1
             db_user == NewRecruiter(id, name, email, hash_password(password))
         IN [rows |-> Append(rows, db_user),
             resp |-> Reply("register", 201, "", NoHeader, SchemaRecruiter, id)]

Register(email, password, name) ==
    /\ Step
    /\ Len(recruiters) < MaxRecruiters \/ EmailTaken(recruiters, email, 0)
    /\ LET r == register_recruiter(recruiters, email, password, name)
       IN /\ recruiters' = r.rows
          /\ response' = r.resp
          /\ history' = Registered(history, recruiters, r.rows)
    /\ mail' = NoMail
    /\ UNCHANGED <<now, ticks, tokens>>

----------------------------------------------------------------------------
\* login_recruiter (POST "/login"), lines 47-98.

\* The columns of the select statement, lines 54-75.
LoginSelect == {"id", "name", "email", "password_hash", "email_verified"}

\* recruiter_data = dict(recruiter); recruiter_data.pop("password_hash")
login_recruiter_data == LoginSelect \ {"password_hash"}

\* Variant: the lifetime written as hours=1.
login_encoded_jwt_hour(id, t) == jwt_encode(id, t + TokenTtl \div 24, t)

\* jwt.encode({"id": recruiter.id, "exp": now + timedelta(days=1)})
login_encoded_jwt(id, t) == jwt_encode(id, t + TokenTtl, t)

\* Variant: the result of the verification is ignored.
password_match_any(password, recruiter) == TRUE

\* security.verify_password(login_data.password, recruiter["password_hash"])
password_match(password, recruiter) ==
    verify_password(password, recruiter.password_hash)

login_recruiter(rows, email, password, t) ==
    IF RowsByEmail(rows, email) = {}
    THEN \* .one() raises NoResultFound
         Unhandled("login", "NoResultFound")
    ELSE LET recruiter == rows[TheRow(RowsByEmail(rows, email))]
         IN IF ~password_match(password, recruiter)
            THEN Reply("login", 500, "invalid credentials", NoHeader, {"message"}, 0)
            ELSE Reply("login", 200, "", login_encoded_jwt(recruiter.id, t),
                       login_recruiter_data, recruiter.id)

Login(email, password) ==
    LET resp == login_recruiter(recruiters, email, password, now)
    IN /\ Step
       /\ resp.token = NoHeader \/ resp.token \in tokens
                                \/ Cardinality(tokens) < MaxTokens
       /\ response' = resp
       /\ tokens' = IF resp.token = NoHeader THEN tokens ELSE tokens \cup {resp.token}
       /\ mail' = NoMail
       /\ UNCHANGED <<recruiters, now, ticks, history>>

----------------------------------------------------------------------------
\* get_recruiter (GET ""), lines 101-111, and verify_recruiter_access_token
\* (GET "/verify-token"), lines 163-171.

\* recruiter_id=Depends(authorize_recruiter), line 105
get_recruiter_Depends(header, t) == authorize_recruiter(header, t)

get_recruiter(rows, header, t) ==
    LET auth == get_recruiter_Depends(header, t)
    IN IF ~auth.ok THEN Unauthorized("fetch", auth.why)
       ELSE IF RowsById(rows, auth.id) = {} THEN Unhandled("fetch", "IndexError")
       ELSE \* response_model=schemas.Recruiter filters the row
            Reply("fetch", 200, "", NoHeader, SchemaRecruiter, auth.id)

Fetch(header) ==
    /\ Step
    /\ response' = get_recruiter(recruiters, header, now)
    /\ mail' = NoMail
    /\ UNCHANGED <<recruiters, now, ticks, tokens, history>>

\* recruiter_id=Depends(authorize_recruiter), line 165
verify_token_Depends(header, t) == authorize_recruiter(header, t)

\* "return recruiter" with no response_model: the whole ORM row is serialized.
verify_token_body == RecruiterColumns

verify_recruiter_access_token(rows, header, t) ==
    LET auth == verify_token_Depends(header, t)
    IN IF ~auth.ok THEN Unauthorized("verify_token", auth.why)
       ELSE IF RowsById(rows, auth.id) = {} THEN Unhandled("verify_token", "IndexError")
       ELSE Reply("verify_token", 200, "", NoHeader, verify_token_body, auth.id)

VerifyToken(header) ==
    /\ Step
    /\ response' = verify_recruiter_access_token(recruiters, header, now)
    /\ mail' = NoMail
    /\ UNCHANGED <<recruiters, now, ticks, tokens, history>>

----------------------------------------------------------------------------
\* upate_recruiter (PUT ""), lines 114-160.

\* Variant: the route declares no dependency on the gate and takes the id as sent.
upate_recruiter_no_gate(header, t) == [ok |-> TRUE, id |-> header.id, why |-> ""]

\* recruiter_id=Depends(authorize_recruiter), line 118
upate_recruiter_Depends(header, t) == authorize_recruiter(header, t)

\* A string stored verbatim in the password_hash column.
Plain(p) == <<"plain", p>>

\* Variant: the password is put into the row as it was sent.
update_data_plaintext(name, email, password) ==
    LET password_hash == IF password # Null /\ password[1] # ""
                         THEN Some(Plain(password[1])) ELSE Null
    IN [name |-> name, email |-> email, password_hash |-> password_hash]

\* Lines 121-129. The arguments are the optional fields of schemas.UpdateRecruiter.
\* "if recruiter_data.password" is false for None and for the empty string;
\* model_dump(exclude_none=True) keeps the fields that are set; "password" is
\* popped and "password_hash" added when a hash was computed.
update_data(name, email, password) ==
    LET password_hash == IF password # Null /\ password[1] # ""
                         THEN Some(hash_password(password[1])) ELSE Null
    IN [name |-> name, email |-> email, password_hash |-> password_hash]

\* update(Recruiter).values(data) applied to one row.
update_values(row, data) ==
    [row EXCEPT !.name = IF data.name # Null THEN data.name[1] ELSE @,
                !.email = IF data.email # Null THEN data.email[1] ELSE @,
                !.password_hash = IF data.password_hash # Null
                                  THEN data.password_hash[1] ELSE @]

\* .where(Recruiter.id == recruiter_id)
update_where(row, recruiter_id) == row.id = recruiter_id

\* The columns of .returning(...), lines 135-154.
update_returning == {"id", "name", "email", "email_verified"}

upate_recruiter(rows, header, name, email, password, t) ==
    LET auth == upate_recruiter_Depends(header, t)
        data == update_data(name, email, password)
        hit == {i \in DOMAIN rows : update_where(rows[i], auth.id)}
    IN IF ~auth.ok THEN [rows |-> rows, resp |-> Unauthorized("update", auth.why)]
       ELSE IF \E i \in hit : data.email # Null /\ EmailTaken(rows, data.email[1], i)
       THEN \* db.execute(stmt) raises IntegrityError
            [rows |-> rows, resp |-> Unhandled("update", "IntegrityError")]
       ELSE IF hit = {}
       THEN \* result.all()[0] on an empty result
            [rows |-> rows, resp |-> Unhandled("update", "IndexError")]
       ELSE [rows |-> [i \in DOMAIN rows |->
                          IF i \in hit THEN update_values(rows[i], data) ELSE rows[i]],
             resp |-> Reply("update", 200, "", NoHeader, update_returning, auth.id)]

Update(header, name, email, password) ==
    /\ Step
    /\ <<name, email, password>> # <<Null, Null, Null>>
    /\ LET r == upate_recruiter(recruiters, header, name, email, password, now)
       IN /\ recruiters' = r.rows
          /\ response' = r.resp
    /\ mail' = NoMail
    /\ UNCHANGED <<now, ticks, tokens, history>>

----------------------------------------------------------------------------
\* send_otp (POST "/send-otp"), lines 174-196.

\* .values(email_otp=otp, email_otp_expiry=now + timedelta(seconds=60))
send_otp_values(row, otp, t) ==
    [row EXCEPT !.email_otp = otp, !.email_otp_expiry = Some(t + OtpTtl)]

\* .where(Recruiter.email == send_otp_data.email)
send_otp_where(row, email) == row.email = email

send_otp(rows, email, draw, delivered, t) ==
    LET otp == generate_otp(draw)
    IN [mail |-> send_otp_email(email, otp, delivered),
        rows |-> [i \in DOMAIN rows |->
                     IF send_otp_where(rows[i], email)
                     THEN send_otp_values(rows[i], otp, t) ELSE rows[i]],
        resp |-> Reply("send_otp", 200, "successfully sent otp", NoHeader, {"message"}, 0)]

SendOtp(email, draw, delivered) ==
    /\ Step
    /\ LET r == send_otp(recruiters, email, draw, delivered, now)
       IN /\ mail' = r.mail
          /\ recruiters' = r.rows
          /\ response' = r.resp
          /\ history' = Superseded(history, recruiters, r.rows)
    /\ UNCHANGED <<now, ticks, tokens>>

----------------------------------------------------------------------------
\* verify_otp (POST "/verify-otp"), lines 199-239.

\* Variant: the expiry check is left out.
otp_expired_never(email_otp_expiry, t) == FALSE

\* Variant: the comparison written with <=.
otp_expired_inclusive(email_otp_expiry, t) == email_otp_expiry <= t

\* recruiter["email_otp_expiry"] < now, lines 210-212
otp_expired(email_otp_expiry, t) == email_otp_expiry < t

\* Variant: the code comparison is left out.
otp_mismatch_never(email_otp, otp) == FALSE

\* Variant: the comparison written with ==.
otp_mismatch_inverted(email_otp, otp) == email_otp = otp

\* recruiter["email_otp"] != verify_otp_data.otp, line 216
otp_mismatch(email_otp, otp) == email_otp # otp

\* Variant: the challenge is cleared when it is consumed.
verify_otp_values_clear(row) ==
    [row EXCEPT !.email_verified = TRUE, !.email_otp = Null,
                !.email_otp_expiry = Null]

\* .values(email_verified=True), line 222
verify_otp_values(row) == [row EXCEPT !.email_verified = TRUE]

\* Variant: the update statement has no where clause.
verify_otp_where_all(row, email) == TRUE

\* .where(Recruiter.email == verify_otp_data.email), line 223
verify_otp_where(row, email) == row.email = email

\* jwt.encode({"id": recruiter.id, "exp": now + timedelta(days=1)}), lines 230-236
verify_otp_encoded_jwt(id, t) == jwt_encode(id, t + TokenTtl, t)

\* "return recruiter" with no response_model: the whole ORM row is serialized.
verify_otp_body == RecruiterColumns

verify_otp(rows, email, otp, t) ==
    IF RowsByEmail(rows, email) = {}
    THEN \* .one() raises NoResultFound
         [rows |-> rows, resp |-> Unhandled("verify_otp", "NoResultFound")]
    ELSE LET recruiter == rows[TheRow(RowsByEmail(rows, email))]
         IN IF recruiter.email_otp_expiry = Null
            THEN \* None < datetime raises TypeError
                 [rows |-> rows, resp |-> Unhandled("verify_otp", "TypeError")]
            ELSE IF otp_expired(recruiter.email_otp_expiry[1], t)
            THEN [rows |-> rows,
                  resp |-> Reply("verify_otp", 400, "otp expired", NoHeader, {"message"}, 0)]
            ELSE IF otp_mismatch(recruiter.email_otp, otp)
            THEN [rows |-> rows,
                  resp |-> Reply("verify_otp", 400, "invalid otp", NoHeader, {"message"}, 0)]
            ELSE LET updated == [i \in DOMAIN rows |->
                                    IF verify_otp_where(rows[i], email)
                                    THEN verify_otp_values(rows[i]) ELSE rows[i]]
                     hit == {i \in DOMAIN rows : verify_otp_where(rows[i], email)}
                 IN IF hit = {}
                    THEN [rows |-> updated, resp |-> Unhandled("verify_otp", "IndexError")]
                    ELSE [rows |-> updated,
                          resp |-> Reply("verify_otp", 200, "",
                                         verify_otp_encoded_jwt(rows[TheRow(hit)].id, t),
                                         verify_otp_body, rows[TheRow(hit)].id)]

VerifyOtp(email, otp) ==
    LET r == verify_otp(recruiters, email, otp, now)
    IN /\ Step
       /\ r.resp.token = NoHeader \/ r.resp.token \in tokens
                                  \/ Cardinality(tokens) < MaxTokens
       /\ recruiters' = r.rows
       /\ response' = r.resp
       /\ tokens' = IF r.resp.token = NoHeader THEN tokens
                    ELSE tokens \cup {r.resp.token}
       /\ mail' = NoMail
       /\ history' = Accepted(history, r.resp, otp, now)
       /\ UNCHANGED <<now, ticks>>

----------------------------------------------------------------------------
\* The clock and the clients.

NoResponse == Reply("", 0, "", NoHeader, NoBody, 0)

Tick(d) ==
    /\ Step
    /\ ticks < MaxTicks
    /\ now' = now + d
    /\ ticks' = ticks + 1
    /\ response' = NoResponse
    /\ mail' = NoMail
    /\ UNCHANGED <<recruiters, tokens, history>>

\* What a client can put in the Authorization header: nothing, a string that is
\* not "Bearer <jwt>", a token it was issued, or a token signed with another key.
Headers == {NoHeader, Malformed} \cup tokens \cup {Jwt(1, now + TokenTtl, now, FALSE)}

Optional(S) == {Null} \cup {Some(v) : v \in S}

Init ==
    /\ recruiters = <<>>
    /\ now = 0
    /\ ticks = 0
    /\ steps = 0
    /\ tokens = {}
    /\ mail = NoMail
    /\ response = NoResponse
    /\ history = NoHistory
    /\ gen = NoGen
    /\ conc = NoConc

Next ==
    \/ \E e \in Emails, p \in Passwords, n \in Names : Register(e, p, n)
    \/ \E e \in Emails, p \in Passwords : Login(e, p)
    \/ \E h \in Headers : Fetch(h)
    \/ \E h \in Headers : VerifyToken(h)
    \/ \E h \in Headers, n \in Optional(Names), e \in Optional(Emails),
          p \in Optional(Passwords) : Update(h, n, e, p)
    \/ \E e \in Emails, d \in Draws, ok \in BOOLEAN : SendOtp(e, d, ok)
    \/ \E e \in Emails, c \in PresentedCodes : VerifyOtp(e, c)
    \/ \E d \in TickSteps : Tick(d)

Spec == Init /\ [][Next]_vars

----------------------------------------------------------------------------
\* The OTP generator of send_otp on its own, lines 178-179.

SmallDraws == 120

\* The draws where str() gains a digit, and the draw 42 shifted to six digits.
DigitEdges ==
    {10^w - 1 : w \in 1..OtpWidth} \cup {10^w : w \in 1..(OtpWidth - 1)}
        \cup {42 * 10^(OtpWidth - 2)}

\* int(random.random() * 1000000) is in 0..999999
GenDraws == {d \in (0..SmallDraws) \cup DigitEdges : d < OtpRange}

GenInit ==
    /\ recruiters = <<>>
    /\ now = 0
    /\ ticks = 0
    /\ steps = 0
    /\ tokens = {}
    /\ mail = NoMail
    /\ response = NoResponse
    /\ history = NoHistory
    /\ gen \in {[draw |-> d, otp |-> Null] : d \in GenDraws}
    /\ conc = NoConc

Generate ==
    /\ gen.otp = Null
    /\ gen' = [gen EXCEPT !.otp = Some(generate_otp(gen.draw))]
    /\ UNCHANGED <<recruiters, now, ticks, steps, tokens, mail, response,
                   history, conc>>

GenNext == Generate

GenSpec == GenInit /\ [][GenNext]_vars

----------------------------------------------------------------------------
\* Two send_otp requests (lines 174-196) handled by two workers at once. Each
\* worker has its own database session; an UPDATE holds the lock of the rows it
\* matched until its transaction commits.

Procs == {1, 2}

\* Variant: the two columns are written by two statements, each committed.
send_otp_statements_split == <<{"email_otp"}, {"email_otp_expiry"}>>

\* The columns each UPDATE statement of send_otp sets, lines 182-193: one
\* statement sets both.
send_otp_statements == <<{"email_otp", "email_otp_expiry"}>>

\* The stores the requests can find: one or two registered recruiters.
ConcStores ==
    LET one(e) == register_recruiter(<<>>, e, "p1", "n1").rows
    IN {one(e) : e \in Emails} \cup
       {register_recruiter(one(ef[1]), ef[2], "p1", "n1").rows :
            ef \in {x \in Emails \X Emails : x[1] # x[2]}}

ConcInit ==
    /\ recruiters \in ConcStores
    /\ now = 0
    /\ ticks = 0
    /\ steps = 0
    /\ tokens = {}
    /\ mail = NoMail
    /\ response = NoResponse
    /\ history = NoHistory
    /\ gen = NoGen
    /\ \E emails \in [Procs -> Emails] :
          conc = [pc |-> [p \in Procs |-> "generate"],
                  email |-> emails,
                  otp |-> [p \in Procs |-> Null],
                  at |-> [p \in Procs |-> 0],
                  k |-> [p \in Procs |-> 1],
                  lock |-> [i \in DOMAIN recruiters |-> 0],
                  last |-> [i \in DOMAIN recruiters |-> 0]]

ConcFrame == UNCHANGED <<steps, tokens, mail, response, history, gen>>

\* Lines 178-179.
ConcGenerate(p, draw) ==
    /\ conc.pc[p] = "generate"
    /\ conc' = [conc EXCEPT !.pc[p] = "mail", !.otp[p] = generate_otp(draw)]
    /\ UNCHANGED <<recruiters, now, ticks>>
    /\ ConcFrame

\* Line 181.
ConcMail(p) ==
    /\ conc.pc[p] = "mail"
    /\ conc' = [conc EXCEPT !.pc[p] = "values"]
    /\ UNCHANGED <<recruiters, now, ticks>>
    /\ ConcFrame

\* Lines 182-193: the statement is built, datetime.now() is read.
ConcValues(p) ==
    /\ conc.pc[p] = "values"
    /\ conc' = [conc EXCEPT !.pc[p] = "execute", !.at[p] = now]
    /\ UNCHANGED <<recruiters, now, ticks>>
    /\ ConcFrame

\* Line 194: db.execute(stmt) waits for the rows it matches and locks them.
ConcExecute(p) ==
    LET mine == {i \in DOMAIN recruiters :
                    send_otp_where(recruiters[i], conc.email[p])}
    IN /\ conc.pc[p] = "execute"
       /\ \A i \in mine : conc.lock[i] \in {0, p}
       /\ conc' = [conc EXCEPT !.pc[p] = "commit",
                                !.lock = [i \in DOMAIN recruiters |->
                                             IF i \in mine THEN p ELSE @[i]]]
       /\ UNCHANGED <<recruiters, now, ticks>>
       /\ ConcFrame

\* Line 195: db.commit() makes the statement's columns visible and unlocks.
ConcCommit(p) ==
    LET mine == {i \in DOMAIN recruiters : conc.lock[i] = p}
        cols == send_otp_statements[conc.k[p]]
        written(row) == send_otp_values(row, conc.otp[p], conc.at[p])
        more == conc.k[p] < Len(send_otp_statements)
    IN /\ conc.pc[p] = "commit"
       /\ recruiters' =
             [i \in DOMAIN recruiters |->
                 IF i \in mine
                 THEN [f \in DOMAIN recruiters[i] |->
                          IF f \in cols THEN written(recruiters[i])[f]
                          ELSE recruiters[i][f]]
                 ELSE recruiters[i]]
       /\ conc' = [conc EXCEPT
                      !.pc[p] = IF more THEN "execute" ELSE "return",
                      !.k[p] = IF more THEN @ + 1 ELSE @,
                      !.lock = [i \in DOMAIN recruiters |->
                                   IF i \in mine THEN 0 ELSE @[i]],
                      !.last = [i \in DOMAIN recruiters |->
                                   IF i \in mine THEN p ELSE @[i]]]
       /\ UNCHANGED <<now, ticks>>
       /\ ConcFrame

\* Line 196.
ConcReturn(p) ==
    /\ conc.pc[p] = "return"
    /\ conc' = [conc EXCEPT !.pc[p] = "done"]
    /\ UNCHANGED <<recruiters, now, ticks>>
    /\ ConcFrame

ConcTick ==
    /\ ticks < MaxTicks
    /\ now' = now + 1
    /\ ticks' = ticks + 1
    /\ UNCHANGED <<recruiters, conc>>
    /\ ConcFrame

ConcNext ==
    \/ \E p \in Procs, d \in Draws : ConcGenerate(p, d)
    \/ \E p \in Procs : ConcMail(p)
    \/ \E p \in Procs : ConcValues(p)
    \/ \E p \in Procs : ConcExecute(p)
    \/ \E p \in Procs : ConcCommit(p)
    \/ \E p \in Procs : ConcReturn(p)
    \/ ConcTick

ConcSpec == ConcInit /\ [][ConcNext]_vars

----------------------------------------------------------------------------
\* Properties.

\* The step just taken was a request to the handler op.
Handled(op) == response'.op = op /\ steps' # steps

RowOf(email) == recruiters[TheRow(RowsByEmail(recruiters, email))]
HasOtp(email) ==
    RowsByEmail(recruiters, email) # {} /\ RowOf(email).email_otp_expiry # Null
Expiry(email) == RowOf(email).email_otp_expiry[1]

\* C1: email_verified is false on a row that Register has just added, turns
\* from false to true only in a Verify OTP step for that recruiter's e-mail
\* that answers 200, and never turns from true to false.
C1_EmailVerifiedOneWay ==
    [][\A i \in DOMAIN recruiters' :
          /\ i \notin DOMAIN recruiters => ~recruiters'[i].email_verified
          /\ i \in DOMAIN recruiters =>
               /\ recruiters[i].email_verified => recruiters'[i].email_verified
               /\ ~recruiters[i].email_verified /\ recruiters'[i].email_verified
                    => \E c \in PresentedCodes :
                          /\ VerifyOtp(recruiters[i].email, c)
                          /\ response'.status = 200]_vars

\* A verified recruiter has gone through a later, successful profile update.
C1_Witness ==
    /\ response.op = "update" /\ response.status = 200
    /\ response.id \in DOMAIN recruiters
    /\ recruiters[response.id].email_verified

\* C2 as stated: a Verify OTP evaluated at now >= the stored expiry, the
\* instant now = expiry included, answers "otp expired".
C2_ExpiredAtOrAfterExpiry ==
    [][\A e \in Emails, c \in PresentedCodes :
          VerifyOtp(e, c) /\ HasOtp(e) /\ now >= Expiry(e)
             => response'.message = "otp expired"]_vars

\* C2 as the code has it: a Verify OTP answers "otp expired" exactly when
\* now > the stored expiry; at now = expiry the stored code is accepted.
C2_ExpiredStrictlyAfterExpiry ==
    [][Handled("verify_otp") =>
       \A e \in Emails, c \in PresentedCodes :
          VerifyOtp(e, c) /\ HasOtp(e)
             => /\ response'.message = "otp expired" <=> now > Expiry(e)
                /\ now > Expiry(e) => response'.token = NoHeader /\ recruiters' = recruiters
                /\ now = Expiry(e) /\ c = RowOf(e).email_otp
                      => response'.status = 200]_vars

\* A Verify OTP has answered "otp expired" for a code whose expiry has passed.
C2_Witness ==
    /\ response.op = "verify_otp" /\ response.message = "otp expired"
    /\ \E e \in Emails : HasOtp(e) /\ Expiry(e) < now

\* C3: the expiry check comes first. After the stored expiry every presented
\* code gets "otp expired"; before it the stored code is accepted and any
\* other code gets "invalid otp".
C3_ExpiryBeforeCodeComparison ==
    [][Handled("verify_otp") =>
       \A e \in Emails, c \in PresentedCodes :
          VerifyOtp(e, c) /\ HasOtp(e)
             => /\ now > Expiry(e) => response'.message = "otp expired"
                /\ now < Expiry(e) /\ c = RowOf(e).email_otp
                      => response'.status = 200 /\ response'.token # NoHeader
                /\ now < Expiry(e) /\ c # RowOf(e).email_otp
                      => response'.message = "invalid otp"]_vars

\* A wrong code presented before the expiry has been answered "invalid otp".
C3_Witness ==
    /\ response.op = "verify_otp" /\ response.message = "invalid otp"
    /\ \E e \in Emails : HasOtp(e) /\ now < Expiry(e)

\* C4: Login sets the Authorization header only when a recruiter has the
\* e-mail and the password verifies against its password_hash, and the token
\* carries that recruiter's id; a wrong password gets a failure with no
\* token; Login never changes the table.
C4_LoginTokenOnlyForVerifiedPassword ==
    [][Handled("login") =>
       \A e \in Emails, p \in Passwords :
          Login(e, p)
             => /\ recruiters' = recruiters
                /\ response'.token # NoHeader =>
                     /\ RowsByEmail(recruiters, e) # {}
                     /\ verify_password(p, RowOf(e).password_hash)
                     /\ response'.token.id = RowOf(e).id
                /\ RowsByEmail(recruiters, e) # {}
                   /\ ~verify_password(p, RowOf(e).password_hash)
                     => /\ response'.token = NoHeader
                        /\ response'.status # 200
                        /\ tokens' = tokens]_vars

\* A login with a wrong password has been answered.
C4_Witness ==
    /\ response.op = "login" /\ response.message = "invalid credentials"
    /\ response.token = NoHeader

\* C5: an Update, Fetch or Verify token request whose header is missing,
\* malformed, badly signed or expired is answered 401 and changes no row: a
\* step of a gated route that changes a row, or answers anything but 401, is
\* not the step of a request with such a header.
C5_GateRejectsBeforeBody ==
    [][/\ response'.op \in {"update", "fetch", "verify_token"}
       /\ recruiters' # recruiters \/ response'.status # 401
       => \A h \in Headers :
             ~jwt_decode_ok(h, now)
                => /\ ~Fetch(h)
                   /\ ~VerifyToken(h)
                   /\ \A n \in Optional(Names), e \in Optional(Emails),
                         p \in Optional(Passwords) : ~Update(h, n, e, p)]_vars

\* An update carrying an expired token has been rejected.
C5_Witness ==
    /\ response.op = "update" /\ response.status = 401
    /\ response.message = "token expired"
    /\ recruiters # <<>>

\* C6: every issued token has exp = issue time + 24h, and the gate accepts
\* it, yielding the recruiter it was issued for, exactly while now < exp.
C6_TokenValidUntilExp ==
    \A tok \in tokens :
       /\ tok.exp = tok.iat + TokenTtl
       /\ tok.id \in DOMAIN recruiters
       /\ LET auth == authorize_recruiter(tok, now)
          IN /\ auth.ok <=> now < tok.iat + TokenTtl
             /\ auth.ok => /\ auth.id = tok.id
                           /\ get_recruiter(recruiters, tok, now).status = 200
                           /\ get_recruiter(recruiters, tok, now).id = tok.id

\* A token presented exactly at its exp has been rejected.
C6_Witness ==
    /\ response.op = "fetch" /\ response.message = "token expired"
    /\ \E tok \in tokens : tok.exp = now

\* C7: no response body carries the password_hash.
C7_NoPasswordHashInResponse == "password_hash" \notin response.body

\* C8: a Send OTP whose delivery fails leaves email_otp and email_otp_expiry
\* of every row as they were.
C8_FailedDeliveryCommitsNothing ==
    [][\A e \in Emails, d \in Draws :
          SendOtp(e, d, FALSE) => recruiters' = recruiters]_vars

\* C9: a Send OTP for an e-mail of no recruiter fails: no success response,
\* no e-mail handed to delivery, no row changed.
C9_SendOtpUnknownEmailFails ==
    [][\A e \in Emails, d \in Draws, ok \in BOOLEAN :
          SendOtp(e, d, ok) /\ RowsByEmail(recruiters, e) = {}
             => /\ response'.status # 200
                /\ mail' = NoMail
                /\ recruiters' = recruiters]_vars

\* C10: no two rows hold the same e-mail, and a Register whose e-mail is
\* already present adds no row and is answered with a typed rejection.
C10_UniqueEmailTypedRejection ==
    [][/\ \A i, j \in DOMAIN recruiters' :
             recruiters'[i].email = recruiters'[j].email => i = j
       /\ \A e \in Emails, p \in Passwords, n \in Names :
             Register(e, p, n) /\ EmailTaken(recruiters, e, 0)
                => /\ recruiters' = recruiters
                   /\ response'.error = ""
                   /\ response'.status \in 400..499]_vars

\* C11: a Login with an unknown e-mail is answered like a Login with a known
\* e-mail and a wrong password: the status and the "invalid credentials"
\* message of the handled failure, with no exception reaching the caller.
C11_UnknownEmailLooksLikeWrongPassword ==
    [][\A e \in Emails, p \in Passwords :
          Login(e, p) /\ RowsByEmail(recruiters, e) = {}
             => /\ response'.message = "invalid credentials"
                /\ response'.body = {"message"}
                /\ response'.error = ""
                /\ \A e2 \in Emails, p2 \in Passwords :
                      /\ RowsByEmail(recruiters, e2) # {}
                      /\ ~verify_password(p2, RowOf(e2).password_hash)
                      => LET other == login_recruiter(recruiters, e2, p2, now)
                         IN /\ response'.status = other.status
                            /\ response'.message = other.message
                            /\ response'.body = other.body]_vars

\* C12: Verify OTP sets the Authorization header only when the request is
\* accepted (unexpired and the stored code presented), the token then carries
\* the id of the recruiter owning the e-mail; an "otp expired" or "invalid
\* otp" answer carries no token and leaves every row as it was.
C12_TokenOnlyWhenAccepted ==
    [][Handled("verify_otp") =>
       \A e \in Emails, c \in PresentedCodes :
          VerifyOtp(e, c)
             => /\ response'.token # NoHeader =>
                     /\ HasOtp(e)
                     /\ ~(Expiry(e) < now)
                     /\ c = RowOf(e).email_otp
                     /\ response'.status = 200
                     /\ response'.token.id = RowOf(e).id
                     /\ response'.token \in tokens'
                /\ response'.message \in {"otp expired", "invalid otp"} =>
                     /\ response'.token = NoHeader
                     /\ tokens' = tokens
                     /\ recruiters' = recruiters]_vars

\* An accepted Verify OTP has issued a token for the recruiter it verified.
C12_Witness ==
    /\ response.op = "verify_otp" /\ response.status = 200
    /\ response.token \in tokens
    /\ response.token.id = response.id
    /\ recruiters[response.id].email_verified

\* C16: every Verify OTP ends in a handled response; a request for an e-mail
\* of no recruiter, or of a recruiter that was never sent an OTP, raises no
\* exception, sets no email_verified and issues no token.
C16_VerifyOtpAlwaysTyped ==
    [][\A e \in Emails, c \in PresentedCodes :
          VerifyOtp(e, c)
             => /\ response'.error = ""
                /\ ~HasOtp(e) => /\ response'.token = NoHeader
                                 /\ recruiters' = recruiters]_vars

\* C13: once a later Send OTP has overwritten a recruiter's challenge, a code
\* of an overwritten challenge that differs from the stored code is not
\* accepted, whether or not its own 60 seconds have elapsed.
C13_SupersededCodeRejected ==
    [][Handled("verify_otp") =>
       \A e \in Emails, c \in PresentedCodes :
          /\ VerifyOtp(e, c)
          /\ HasOtp(e)
          /\ \E s \in history.superseded : s.id = RowOf(e).id /\ s.otp = c
          /\ c # RowOf(e).email_otp
          => /\ response'.status # 200
             /\ response'.token = NoHeader
             /\ recruiters' = recruiters]_vars

\* The overwritten code of the only recruiter has been refused while both its
\* own window and the window of the stored code were still open.
C13_Witness ==
    /\ response.op = "verify_otp" /\ response.message = "invalid otp"
    /\ Len(recruiters) = 1
    /\ \E s \in history.superseded :
          /\ s.id = recruiters[1].id
          /\ s.otp # recruiters[1].email_otp
    /\ now < OtpTtl
    /\ now < recruiters[1].email_otp_expiry[1]

\* C18: an accepted Verify OTP changes email_verified of the recruiter and
\* nothing else, so the same code presented again up to the stored expiry is
\* accepted again and gets a token.
C18_AcceptedVerifyKeepsChallenge ==
    [][Handled("verify_otp") =>
       \A e \in Emails, c \in PresentedCodes :
          VerifyOtp(e, c) /\ response'.status = 200
             => /\ recruiters' =
                     [recruiters EXCEPT ![TheRow(RowsByEmail(recruiters, e))] =
                         [@ EXCEPT !.email_verified = TRUE]]
                /\ \A t \in now..Expiry(e) :
                      LET again == verify_otp(recruiters', e, c, t)
                      IN /\ again.resp.status = 200
                         /\ again.resp.token # NoHeader
                         /\ again.resp.token.id = response'.id
                         /\ again.rows = recruiters']_vars

\* The same code has been accepted twice for the same recruiter.
C18_Witness ==
    /\ response.op = "verify_otp" /\ response.status = 200
    /\ \E a \in history.again :
          /\ a.id = response.id
          /\ a.otp = recruiters[a.id].email_otp

LoginStatus(rows, i, password, t) ==
    login_recruiter(rows, rows[i].email, password, t).status

\* C19 as stated: an authorized Update that supplies a password p2 other
\* than the current one stores the hash of p2 and the plaintext nowhere, after
\* which a Login with p2 succeeds and with the old p1 fails; an Update that
\* supplies no password leaves password_hash as it was.
C19_SuppliedPasswordReplacesHash ==
    [][Handled("update") /\ response'.status = 200 =>
       \A h \in Headers, n \in Optional(Names), e \in Optional(Emails),
          p \in Optional(Passwords) :
          authorize_recruiter(h, now).ok /\ Update(h, n, e, p)
             => LET i == response'.id
                IN /\ p = Null =>
                        recruiters'[i].password_hash = recruiters[i].password_hash
                   /\ p # Null /\ ~verify_password(p[1], recruiters[i].password_hash)
                        => /\ recruiters'[i].password_hash = hash_password(p[1])
                           /\ recruiters'[i].password_hash # Plain(p[1])
                           /\ LoginStatus(recruiters', i, p[1], now) = 200
                           /\ \A p1 \in Passwords :
                                 verify_password(p1, recruiters[i].password_hash)
                                    => LoginStatus(recruiters', i, p1, now) # 200]_vars

\* C19 as the code has it: the same for a non-empty p2; an Update that
\* supplies no password, or the empty string, leaves password_hash as it was.
C19_NonEmptyPasswordReplacesHash ==
    [][Handled("update") /\ response'.status = 200 =>
       \A h \in Headers, n \in Optional(Names), e \in Optional(Emails),
          p \in Optional(Passwords) :
          authorize_recruiter(h, now).ok /\ Update(h, n, e, p)
             => LET i == response'.id
                IN /\ p = Null \/ p = Some("") =>
                        recruiters'[i].password_hash = recruiters[i].password_hash
                   /\ p # Null /\ p # Some("")
                      /\ ~verify_password(p[1], recruiters[i].password_hash)
                        => /\ recruiters'[i].password_hash = hash_password(p[1])
                           /\ recruiters'[i].password_hash # Plain(p[1])
                           /\ LoginStatus(recruiters', i, p[1], now) = 200
                           /\ \A p1 \in Passwords :
                                 verify_password(p1, recruiters[i].password_hash)
                                    => LoginStatus(recruiters', i, p1, now) # 200]_vars

\* A recruiter has logged in after its password was changed by an update.
C19_Witness ==
    /\ response.op = "login" /\ response.status = 200
    /\ recruiters[response.id].password_hash # history.registered[response.id]

----------------------------------------------------------------------------
\* Properties of the generator, under GenSpec.

Digits == 0..9

\* The decimal representation of n padded with zeros on the left to width w.
LeftPad(n, w) == Zeros(w - Len(str(n))) \o str(n)

\* C14: every generated OTP has exactly 6 characters, each a decimal digit.
C14_OtpIsSixDigits ==
    gen.otp # Null =>
        /\ Len(gen.otp[1]) = OtpWidth
        /\ \A i \in 1..Len(gen.otp[1]) : gen.otp[1][i] \in Digits

\* A one-digit draw has been padded to six characters.
C14_Witness ==
    gen.otp # Null /\ gen.draw < 10 /\ Len(gen.otp[1]) = OtpWidth

\* C15: the generated OTP is the draw padded with zeros on the left to width 6,
\* and no other draw gives the same code.
C15_LeftPaddedAndInjective ==
    gen.otp # Null =>
        /\ gen.otp[1] = LeftPad(gen.draw, OtpWidth)
        /\ \A d \in GenDraws \ {gen.draw} : generate_otp(d) # gen.otp[1]

----------------------------------------------------------------------------
\* Properties of two concurrent send_otp requests, under ConcSpec.

\* C17: when two Send OTP requests for the same email have both completed, the
\* stored code and expiry of the recruiter are both those of the request whose
\* write was committed last.
C17_StoredPairFromLastWriter ==
    \A p \in Procs, q \in Procs :
        /\ p # q
        /\ conc.pc[p] = "done" /\ conc.pc[q] = "done"
        /\ conc.email[p] = conc.email[q]
        => \A i \in RowsByEmail(recruiters, conc.email[p]) :
              LET w == conc.last[i]
              IN /\ w \in {p, q}
                 /\ recruiters[i].email_otp = conc.otp[w]
                 /\ recruiters[i].email_otp_expiry = Some(conc.at[w] + OtpTtl)

\* Both requests for a registered email are done with different codes and
\* different expiries, and the one that read the clock first wrote last.
C17_Witness ==
    /\ \A p \in Procs : conc.pc[p] = "done"
    /\ conc.email[1] = conc.email[2]
    /\ conc.otp[1] # conc.otp[2]
    /\ \E i \in RowsByEmail(recruiters, conc.email[1]) :
          /\ conc.last[i] \in Procs
          /\ \E q \in Procs : conc.at[conc.last[i]] < conc.at[q]

====
